---------------------------- MODULE Spec2Model ----------------------------
(* A model of the Scrawler interpreter of src/scrawler.py: the run of go()  *)
(* (launch, the page loop of __scrawl, cleanup), the page visit with its    *)
(* repeat policy, and the recursive node traversal of __interact.           *)
(*                                                                          *)
(* Python dictionaries that the code shares by reference (a link record's   *)
(* metadata, state['vars']) live in `heap`; a variable that holds such a    *)
(* dictionary holds its index in the heap.                                  *)
EXTENDS Integers, Sequences, FiniteSets, TLC

\* ------------------------------------------------------------------ bounds
MaxRuns == 2          \* calls of go() on one Scrawler
MaxMatches == 2       \* elements a selector matches
MaxWhile == 2         \* interactions of one `while` repeat before the model stops looking
MaxPieces == 3         \* pieces (tokens and other text) of a string that __evaluate is given
MaxWindow == 5        \* elements the selector of a node with a range matches

\* ----------------------------------------------------------- dictionaries
EmptyDict == <<>>

DictSet(d, k, v) == (k :> v) @@ d

\* --------------------------------------------------------- Python values
\* A value carries its type and, in the field of that type, its content: the
\* characters of a str, the number of an int, the items of a list, the
\* function from keys to values of a dict. A key of a path is a str used as
\* a key (its text in k) or an int.
Blank == [t |-> "none", k |-> "", n |-> 0, s |-> <<>>, l |-> <<>>, d |-> <<>>]

None == Blank

StrV(s) == [Blank EXCEPT !.t = "str", !.s = s]

IntV(n) == [Blank EXCEPT !.t = "int", !.n = n]

ListV(l) == [Blank EXCEPT !.t = "list", !.l = l]

DictV(d) == [Blank EXCEPT !.t = "dict", !.d = d]

Key(k) == [Blank EXCEPT !.t = "key", !.k = k]

Ok(x) == [err |-> "none", val |-> x]

Raise(e) == [err |-> e, val |-> None]

\* The characters of a str as a list of one-character strs (list += str).
Chars(s) == [j \in DOMAIN s |-> StrV(<<s[j]>>)]

\* ------------------------------------------------------- utils/keypath.py
\* has_key(obj, key): an index of a list or str, a key of a dict; for any
\* other object hasattr(obj, key), which no key of the model satisfies.
has_key(obj, key) ==
    CASE obj.t = "list" -> key.t = "int" /\ key.n \in 0..(Len(obj.l) - 1)
      [] obj.t = "str" -> key.t = "int" /\ key.n \in 0..(Len(obj.s) - 1)
      [] obj.t = "dict" -> key.t = "key" /\ key.k \in DOMAIN obj.d
      [] OTHER -> FALSE

\* obj[key] where has_key(obj, key).
Item(obj, key) ==
    CASE obj.t = "list" -> obj.l[key.n + 1]
      [] obj.t = "str" -> StrV(<<obj.s[key.n + 1]>>)
      [] OTHER -> obj.d[key.k]

\* The error of obj[key] where the key is missing.
SubscriptError(obj, key) ==
    CASE obj.t = "dict" -> "KeyError"
      [] obj.t \in {"list", "str"} /\ key.t = "int" -> "IndexError"
      [] OTHER -> "TypeError"

\* obj[key] = val: a dict takes any str key, a list an index it has. (An int
\* key never meets a dict: find_item_key yields an index only for a list.)
SetItem(obj, key, val) ==
    CASE obj.t = "dict" /\ key.t = "key" -> Ok(DictV((key.k :> val) @@ obj.d))
      [] obj.t = "list" /\ has_key(obj, key) -> Ok(ListV([obj.l EXCEPT ![key.n + 1] = val]))
      [] obj.t = "list" /\ key.t = "int" -> Raise("IndexError")
      [] OTHER -> Raise("TypeError")

\* An assignment in place of the augmented one: the new value alone.
IAddKeepsNew(old, new) == Ok(new)

\* old += new for a new of type str, int or list (line 53).
IAdd(old, new) ==
    CASE old.t = "list" /\ new.t = "list" -> Ok(ListV(old.l \o new.l))
      [] old.t = "list" /\ new.t = "str" -> Ok(ListV(old.l \o Chars(new.s)))
      [] old.t = "str" /\ new.t = "str" -> Ok(StrV(old.s \o new.s))
      [] old.t = "int" /\ new.t = "int" -> Ok(IntV(old.n + new.n))
      [] OTHER -> Raise("TypeError")

\* Lines 49-58 of assign from segment i on. At the last segment, line 51
\* tests type(_obj[key] == type(value)), the type of a bool, which is always
\* true; line 54 compares type(value) with the builtin `dir`, which is never
\* equal: a merged dict, bool or None leaves the tree as it is. Before the
\* last segment _obj = _obj[key] creates nothing.
RECURSIVE AssignFrom(_, _, _, _, _)
AssignFrom(obj, path, i, value, merge) ==
    LET key == path[i] IN
    IF i = Len(path)
    THEN IF merge /\ has_key(obj, key)
         THEN IF value.t \in {"str", "int", "list"}
              THEN LET r == IAdd(Item(obj, key), value)
                   IN IF r.err # "none" THEN [err |-> r.err, val |-> obj]
                      ELSE LET w == SetItem(obj, key, r.val)
                           IN IF w.err # "none" THEN [err |-> w.err, val |-> obj] ELSE w
              ELSE Ok(obj)
         ELSE LET w == SetItem(obj, key, value)
              IN IF w.err # "none" THEN [err |-> w.err, val |-> obj] ELSE w
    ELSE IF ~has_key(obj, key) THEN [err |-> SubscriptError(obj, key), val |-> obj]
         ELSE LET r == AssignFrom(Item(obj, key), path, i + 1, value, merge)
              IN IF r.err # "none" THEN [err |-> r.err, val |-> obj]
                 ELSE SetItem(obj, key, r.val)

\* assign(value, obj, path, merge=...): the tree after the call, or the error
\* with the tree as it was.
assign(value, obj, path, merge) ==
    IF Len(path) = 0 THEN Ok(obj) ELSE AssignFrom(obj, path, 1, value, merge)

RECURSIVE GetFrom(_, _, _, _)
GetFrom(value, path, i, default) ==
    IF i > Len(path) THEN value
    ELSE IF ~(value.t \in {"dict", "list", "str"} /\ has_key(value, path[i])) THEN default
    ELSE GetFrom(Item(value, path[i]), path, i + 1, default)

\* get(path, obj): default is None.
get(path, obj) == IF Len(path) = 0 THEN None ELSE GetFrom(obj, path, 1, None)

\* ------------------------------------------------------ utils/notation.py
\* A raw path segment is a str; the model keeps its text with what key_re
\* finds in it: form "key" is "$key{sub op operand}" or "$key{sub op $operand}",
\* which key_re matches; form "star" is "*{sub op $operand}" and form "plain"
\* a word, which it does not match. `lit` is the operand as a str value. (No
\* segment of the model has a $-prefixed left operand.)
Seg(text, form, sub, op, operand, isVar) ==
    [text |-> text, form |-> form, sub |-> sub, op |-> op, operand |-> operand,
     isVar |-> isVar, lit |-> StrV(<<operand>>)]

Plain(text) == Seg(text, "plain", "", "", "", FALSE)

\* The characters of the model's strs, in code point order.
Alphabet == <<"1", "2", "A", "B">>

Ord(c) == CHOOSE k \in DOMAIN Alphabet : Alphabet[k] = c

\* a < b for two strs.
RECURSIVE StrLess(_, _)
StrLess(a, b) ==
    IF b = <<>> THEN FALSE
    ELSE IF a = <<>> THEN TRUE
    ELSE IF Ord(Head(a)) # Ord(Head(b)) THEN Ord(Head(a)) < Ord(Head(b))
    ELSE StrLess(Tail(a), Tail(b))

Less(a, b) == IF a.t = "int" THEN a.n < b.n ELSE StrLess(a.s, b.s)

\* Lines 64-71: the comparison of v[left_operand] with the operand. == and
\* != compare any two values; an order between an int and a str, or with a
\* value that has none, raises TypeError.
Compare(a, op, b) ==
    CASE op = "=" -> Ok(a = b)
      [] op = "!=" -> Ok(a # b)
      [] a.t # b.t \/ a.t \notin {"int", "str"} -> Raise("TypeError")
      [] op = "<" -> Ok(Less(a, b))
      [] op = ">" -> Ok(Less(b, a))
      [] op = "<=" -> Ok(~Less(b, a))
      [] OTHER -> Ok(~Less(a, b))

\* The keys of the model's dicts in the order in which dict literals hold them.
KeyNames == <<"a", "b", "id", "items", "titles", "u", "w", "x", "y">>

\* The keys from the last to the first.
ItemKeysReversed(value) ==
    LET n == IF value.t = "list" THEN Len(value.l) ELSE 0
    IN [j \in 1..n |-> IntV(n - j)]

\* value.items() / enumerate(value): the keys in iteration order.
ItemKeys(value) ==
    IF value.t = "list" THEN [j \in 1..Len(value.l) |-> IntV(j - 1)]
    ELSE LET present == SelectSeq(KeyNames, LAMBDA name : name \in DOMAIN value.d)
         IN [j \in DOMAIN present |-> Key(present[j])]

\* Lines 61-75: the first item in order for which the comparison holds; an
\* item without the subkey raises; the loop's else raises ValueError.
RECURSIVE ScanItems(_, _, _, _, _, _)
ScanItems(keys, i, value, sub, op, right) ==
    IF i > Len(keys) THEN Raise("ValueError")
    ELSE LET v == Item(value, keys[i]) IN
         IF ~has_key(v, Key(sub)) THEN Raise(SubscriptError(v, Key(sub)))
         ELSE LET c == Compare(Item(v, Key(sub)), op, right) IN
              IF c.err # "none" THEN Raise(c.err)
              ELSE IF c.val THEN Ok(keys[i])
              ELSE ScanItems(keys, i + 1, value, sub, op, right)

\* find_item_key(key, value, vars)
find_item_key(seg, value, vars) ==
    IF seg.form # "key" THEN Ok(Key(seg.text))
    ELSE IF seg.isVar /\ seg.operand \notin DOMAIN vars THEN Raise("KeyError")
    ELSE IF value.t \notin {"dict", "list"} THEN Raise("TypeError")
    ELSE ScanItems(ItemKeys(value), 1, value, seg.sub, seg.op,
                   IF seg.isVar THEN vars[seg.operand] ELSE seg.lit)

\* Lines 79-94 of resolve with resolve_key = find_item_key, from segment i
\* on: a key the current value does not hold raises KeyError in strict mode
\* and is kept as it is otherwise, the value staying where it is.
RECURSIVE ResolveSegments(_, _, _, _, _, _)
ResolveSegments(path, i, value, vars, strict, acc) ==
    IF i > Len(path) THEN Ok(acc)
    ELSE LET r == find_item_key(path[i], value, vars) IN
         IF r.err # "none" THEN Raise(r.err)
         ELSE IF ~(value.t \in {"list", "dict"} /\ has_key(value, r.val))
              THEN IF strict THEN Raise("KeyError")
                   ELSE ResolveSegments(path, i + 1, value, vars, strict, Append(acc, r.val))
         ELSE ResolveSegments(path, i + 1, Item(value, r.val), vars, strict, Append(acc, r.val))

\* resolve(path, obj, vars, resolve_key=find_item_key, strict=...)
resolve(path, obj, vars, strict) == ResolveSegments(path, 1, obj, vars, strict, <<>>)

\* ------------------------------------------------- the configuration tree
\* A page-link source is a list of items: a url string ("lit"), a
\* {url, metadata} record ("rec", meta = 0 when the record has no metadata
\* key, else the heap index of its metadata mapping) or "$name" ("ref").
LitA == [kind |-> "lit", url |-> "/a", name |-> "", meta |-> 0]

RecM == [kind |-> "rec", url |-> "/m", name |-> "", meta |-> 1]

RecN == [kind |-> "rec", url |-> "/n", name |-> "", meta |-> 0]

RefP == [kind |-> "ref", url |-> "", name |-> "p", meta |-> 0]

LinkSources == {<<LitA>>, <<RecM>>, <<RefP>>, <<LitA, RecN>>, <<>>}

\* The metadata mapping of RecM, as configured (heap index 1).
ConfigMeta == [cat |-> "m"]

\* A while-probe: 'exists' and 'disabled' are "absent", "true" or "false".
Tri == {"absent", "true", "false"}

Probes == [exists : Tri, disabled : Tri]

NoProbe == [exists |-> "absent", disabled |-> "absent"]

\* A node name is a sequence of characters.
ItemName == <<"a", ":", "i">>

RowName == <<"r">>

\* A string that __evaluate is given: kind "attr" is "$attr{prop}", kind
\* "attrs" is "$attr{prop@<parent.all>a}", kind "var" is "$var{prop}", and
\* kind "text" is the text s, which holds no $attr{...} or $var{...}.
Expr(kind, prop, s) == [kind |-> kind, prop |-> prop, s |-> s]

HrefExpr == Expr("attr", "href", "")

TextExpr == Expr("text", "", "/t")

LinkP == [name |-> "p", url |-> HrefExpr, metadata |-> [tag |-> TextExpr]]

LeafNode ==
    [name |-> RowName, wait |-> FALSE, all |-> FALSE,
     range |-> <<>>, links |-> <<>>, data |-> <<>>, nodes |-> <<>>,
     show |-> FALSE, actions |-> <<>>]

HarvestNode ==
    [name |-> ItemName, wait |-> FALSE, all |-> TRUE,
     range |-> <<>>, links |-> <<LinkP>>, data |-> <<>>, nodes |-> <<>>,
     show |-> FALSE, actions |-> <<>>]

WaitNode ==
    [name |-> RowName, wait |-> TRUE, all |-> FALSE,
     range |-> <<>>, links |-> <<>>, data |-> <<>>, nodes |-> <<>>,
     show |-> FALSE, actions |-> <<>>]

NestNode ==
    [name |-> ItemName, wait |-> FALSE, all |-> TRUE,
     range |-> <<>>, links |-> <<>>, data |-> <<>>, nodes |-> << <<LeafNode>> >>,
     show |-> FALSE, actions |-> <<>>]

\* An entry of node['range']: the str '_' or an int.
Under == [u |-> TRUE, v |-> 0]

At(k) == [u |-> FALSE, v |-> k]

Ranges ==
    {<<Under, Under, Under>>, <<At(1), Under, At(2)>>, <<At(1)>>, <<At(0), At(2)>>,
     <<Under, At(7), At(3)>>}

RangeNode(rng, all) ==
    [name |-> ItemName, wait |-> FALSE, all |-> all,
     range |-> rng, links |-> <<>>, data |-> <<>>, nodes |-> <<>>,
     show |-> FALSE, actions |-> <<>>]

\* A data configuration {scope, value}: the scope is a keypath, here split
\* into its segments; the value is a str, a list of strs or a dict of strs.
StrValue(e) == [kind |-> "str", expr |-> e, items |-> <<>>, fields |-> <<>>]

Titles == <<Plain("titles")>>

DeepScope == <<Plain("a"), Plain("b")>>

DataNode(scope, all) ==
    [name |-> ItemName, wait |-> FALSE, all |-> all,
     range |-> <<>>, links |-> <<>>,
     data |-> <<[scope |-> scope, value |-> StrValue(HrefExpr)]>>, nodes |-> <<>>,
     show |-> FALSE, actions |-> <<>>]

\* node['actions']: an action has a type, may ask for 'dispatch', has a
\* 'count' that is an int or a str, and may name a 'screenshot' path.
Lit(n) == [isStr |-> FALSE, n |-> n, expr |-> Expr("text", "", "")]

CountExpr(e) == [isStr |-> TRUE, n |-> 0, expr |-> e]

Act(type, dispatch, count) ==
    [type |-> type, dispatch |-> dispatch, count |-> count, hasShot |-> FALSE,
     shot |-> Expr("text", "", "")]

ActShot(type, dispatch, count, path) ==
    [type |-> type, dispatch |-> dispatch, count |-> count, hasShot |-> TRUE,
     shot |-> path]

ActionSets ==
    {<<ActShot("click", FALSE, Lit(2), HrefExpr)>>,
     <<ActShot("click", FALSE, Lit(0), Expr("text", "", "/s")), Act("swipe_right", FALSE, Lit(1))>>,
     <<Act("click", FALSE, CountExpr(Expr("var", "_nth", "")))>>,
     <<Act("click", FALSE, CountExpr(Expr("text", "", "2")))>>,
     <<Act("hover", TRUE, Lit(1)), ActShot("click", TRUE, Lit(1), HrefExpr)>>,
     <<Act("swipe_left", TRUE, Lit(1))>>,
     <<Act("hover", FALSE, Lit(1))>>,
     <<ActShot("click", FALSE, Lit(1), Expr("var", "nope", ""))>>}

ActNode(acts) ==
    [name |-> ItemName, wait |-> FALSE, all |-> TRUE,
     range |-> <<>>, links |-> <<>>, data |-> <<>>, nodes |-> <<>>,
     show |-> FALSE, actions |-> acts]

\* A node whose link harvest has the url expression e and the metadata
\* expression tag.
LinkNode(e, tag) ==
    [name |-> ItemName, wait |-> FALSE, all |-> TRUE,
     range |-> <<>>, links |-> <<[name |-> "p", url |-> e, metadata |-> [tag |-> tag]]>>,
     data |-> <<>>, nodes |-> <<>>, show |-> FALSE, actions |-> <<>>]

\* A node whose data harvest has the value expression e.
ValueNode(e) ==
    [name |-> ItemName, wait |-> FALSE, all |-> FALSE,
     range |-> <<>>, links |-> <<>>,
     data |-> <<[scope |-> Titles, value |-> StrValue(e)]>>, nodes |-> <<>>,
     show |-> FALSE, actions |-> <<>>]

\* A node with every step: scrolled into view, acted on, harvested for
\* links and data, and with a nested node.
FullNode ==
    [name |-> ItemName, wait |-> FALSE, all |-> TRUE,
     range |-> <<>>, links |-> <<LinkP>>,
     data |-> <<[scope |-> Titles, value |-> StrValue(TextExpr)]>>,
     nodes |-> << <<HarvestNode>> >>, show |-> TRUE,
     actions |-> <<ActShot("click", FALSE, Lit(1), Expr("text", "", "/s"))>>]

\* A node list is a list of positions; a position is a list of alternatives.
HarvestList == << <<HarvestNode>> >>

WaitList == << <<WaitNode>>, <<HarvestNode>> >>

NestList == << <<LeafNode, NestNode>>, <<LeafNode>> >>

LeafList == << <<LeafNode>> >>

NodeLists == {HarvestList, WaitList, NestList}

RangeLists == {<< <<RangeNode(r, a)>> >> : r \in Ranges, a \in BOOLEAN}

DataLists == {<< <<DataNode(sc, a)>> >> : sc \in {Titles, DeepScope}, a \in BOOLEAN}

ActionLists == {<< <<ActNode(acts)>> >> : acts \in ActionSets}

ExprLists ==
    {<< <<LinkNode(e, TextExpr)>> >> :
        e \in {Expr("attrs", "href", ""), Expr("attr", "title", ""),
               Expr("var", "_nth", ""), Expr("var", "nope", ""), Expr("text", "", "href")}}
    \cup {<< <<ValueNode(e)>> >> : e \in {Expr("var", "_nth", ""), Expr("text", "", "href")}}
    \cup {<< <<LinkNode(HrefExpr, Expr("attrs", "href", ""))>> >>}

FullList == << <<LeafNode, FullNode, HarvestNode>>, <<LeafNode>> >>

\* pg['repeat']: kind "none" stands for a descriptor without the key.
NoRepeat == [kind |-> "none", n |-> 0, probe |-> NoProbe, nodes |-> <<>>]

Unbound == [kind |-> "unbound", n |-> 0, probe |-> NoProbe, nodes |-> <<>>]

TimesOnce(nl) == [kind |-> "times", n |-> 1, probe |-> NoProbe, nodes |-> nl]

Repeats ==
    {NoRepeat}
    \cup {TimesOnce(nl) : nl \in RangeLists \cup DataLists}
    \cup {[kind |-> "times", n |-> n, probe |-> NoProbe, nodes |-> nl] :
             n \in {0, 2}, nl \in NodeLists}
    \cup {[kind |-> "while", n |-> 0, probe |-> pr, nodes |-> HarvestList] :
             pr \in Probes}

\* A page descriptor with its 'link' key; hasLink = FALSE stands for an entry
\* of 'scrawl' without the key.
PageDescs == [hasLink : {TRUE}, link : LinkSources, repeat : Repeats]

NoLinkDesc == [hasLink |-> FALSE, link |-> <<>>, repeat |-> NoRepeat]

PlainDesc == [hasLink |-> TRUE, link |-> <<LitA>>, repeat |-> NoRepeat]

\* The configurations: none or one page descriptor of any shape, or a
\* harvesting descriptor followed by one that visits the harvested links.
Scrawls ==
    {<<>>}
    \cup {<<p>> : p \in PageDescs}
    \cup {<<[hasLink |-> TRUE, link |-> <<LitA>>, repeat |-> TimesOnce(nl)]>> :
             nl \in ActionLists \cup ExprLists \cup {FullList}}
    \cup {<<p, q>> : p \in {[hasLink |-> TRUE, link |-> l, repeat |-> TimesOnce(HarvestList)] :
                                l \in {<<LitA>>, <<RecM>>}},
                     q \in {[hasLink |-> TRUE, link |-> <<RefP>>, repeat |-> NoRepeat],
                            [hasLink |-> TRUE, link |-> <<RefP>>,
                             repeat |-> TimesOnce(LeafList)],
                            [hasLink |-> TRUE, link |-> <<RefP>>,
                             repeat |-> TimesOnce(HarvestList)]}}

\* A value of config['browser'] as validate() and __launch_browser read it:
\* its type, and for a dict its settings, each with its type, its text (a
\* str) and the types of its items (a list).
Setting(ty, val, items) == [ty |-> ty, val |-> val, items |-> items]

StrS(val) == Setting("str", val, <<>>)

IntS == Setting("int", "", <<>>)

BoolS == Setting("bool", "", <<>>)

ListS(items) == Setting("list", "", items)

BrowserDict(set) == [has |-> TRUE, ty |-> "dict", set |-> set]

NoBrowser == [has |-> FALSE, ty |-> "none", set |-> <<>>]

Chromium == BrowserDict("type" :> StrS("chromium"))

Netscape == BrowserDict("type" :> StrS("netscape"))

FullBrowser ==
    BrowserDict([type |-> StrS("firefox"), show |-> BoolS, timeout |-> IntS,
                 ready_on |-> StrS("load"), slowdown |-> IntS,
                 viewport |-> ListS(<<"int", "int">>), block |-> ListS(<<"str">>)])

\* Values of config['browser'] with one setting of the wrong shape each.
BadBrowsers ==
    {[has |-> TRUE, ty |-> "list", set |-> <<>>]}
    \cup {BrowserDict(k :> v) :
             k \in {"type", "show", "timeout", "slowdown"}, v \in {ListS(<<"int", "int">>)}}
    \cup {BrowserDict("type" :> IntS), BrowserDict("show" :> StrS("yes")),
          BrowserDict("timeout" :> BoolS), BrowserDict("timeout" :> StrS("5")),
          BrowserDict("slowdown" :> BoolS), BrowserDict("ready_on" :> StrS("never")),
          BrowserDict("ready_on" :> IntS), BrowserDict("viewport" :> ListS(<<"int">>)),
          BrowserDict("viewport" :> ListS(<<"int", "str">>)),
          BrowserDict("viewport" :> ListS(<<>>)), BrowserDict("viewport" :> IntS),
          BrowserDict("block" :> ListS(<<"str", "int">>)),
          BrowserDict("block" :> ListS(<<>>)), BrowserDict("block" :> StrS("img")),
          BrowserDict("block" :> IntS)}

Config(b, has, ty, sc) == [browser |-> b, hasScrawl |-> has, scrawlTy |-> ty, scrawl |-> sc]

\* The configurations whose every visit is described as the reference asks.
Configs ==
    {Config(Chromium, TRUE, "list", sc) : sc \in Scrawls}
    \cup {Config(Chromium, FALSE, "none", <<>>), Config(Netscape, TRUE, "list", <<PlainDesc>>),
          Config(NoBrowser, TRUE, "list", <<PlainDesc>>),
          Config(FullBrowser, TRUE, "list", <<PlainDesc>>)}

\* Configurations with a value of the wrong shape: a setting of 'browser', a
\* 'scrawl' that is a dict or a str, an entry of 'scrawl' without 'link'.
OddConfigs ==
    {Config(b, TRUE, "list", <<PlainDesc>>) : b \in BadBrowsers}
    \cup {Config(Chromium, TRUE, ty, <<>>) : ty \in {"dict", "str"}}
    \cup {Config(Chromium, TRUE, "list", sc) : sc \in {<<NoLinkDesc>>, <<PlainDesc, NoLinkDesc>>}}

BrowserTypes == {"chromium", "firefox", "webkit"}

\* list_of(typ, lst) of validate(): an empty lst is refused, then each item
\* must be of the type; a str is iterated by its characters, each a str.
list_of(typ, v) ==
    CASE v.ty = "list" -> v.items # <<>> /\ \A j \in DOMAIN v.items : v.items[j] = typ
      [] v.ty = "str" -> v.val # "" /\ typ = "str"
      [] OTHER -> FALSE

\* What list_of can iterate: the loop over a (true) int or bool raises
\* TypeError.
Iterable(v) == v.ty \in {"list", "str"}

ReadyStates == {"load", "domcontentloaded", "networkidle", "commit"}

\* validate(config): the first check that fails raises; the entries of
\* 'scrawl' are not looked at.
validate(c) ==
    LET b == c.browser
        given(k) == k \in DOMAIN b.set
    IN IF b.has /\ b.ty # "dict" THEN "ValueError"
       ELSE IF b.has /\ given("type") /\ b.set["type"].ty # "str" THEN "ValueError"
       ELSE IF b.has /\ given("show") /\ b.set["show"].ty # "bool" THEN "ValueError"
       ELSE IF b.has /\ given("timeout") /\ b.set["timeout"].ty # "int" THEN "ValueError"
       ELSE IF b.has /\ given("ready_on")
                     /\ ~(b.set["ready_on"].ty = "str" /\ b.set["ready_on"].val \in ReadyStates)
            THEN "ValueError"
       ELSE IF b.has /\ given("slowdown") /\ b.set["slowdown"].ty # "int" THEN "ValueError"
       ELSE IF b.has /\ given("viewport") /\ ~Iterable(b.set["viewport"]) THEN "TypeError"
       ELSE IF b.has /\ given("viewport")
                     /\ (~list_of("int", b.set["viewport"]) \/ Len(b.set["viewport"].items) # 2)
            THEN "ValueError"
       ELSE IF b.has /\ given("block") /\ ~Iterable(b.set["block"]) THEN "TypeError"
       ELSE IF b.has /\ given("block") /\ ~list_of("str", b.set["block"]) THEN "ValueError"
       ELSE IF c.hasScrawl /\ c.scrawlTy # "list" THEN "ValueError"
       ELSE "none"

\* Lines 630-631: config.get('browser', {}).get('type', 'chromium').
BrowserType(c) ==
    IF c.browser.has /\ "type" \in DOMAIN c.browser.set THEN c.browser.set["type"].val
    ELSE "chromium"

\* ------------------------------------------------------------------ state
VARIABLES
    config,     \* self.__config
    heap,       \* the dictionaries shared by reference, by index
    vars,       \* self.__state['vars']: a heap index
    links,      \* self.__state['links']: name -> list of [url, meta]
    session,    \* self.__browser / __browser_context: "none", "open", "closed"
    pages,      \* number of open pages of the browser context
    pc,         \* position of the run
    runs,       \* calls of go() so far
    pgIdx,      \* index of pg in config['scrawl']
    pending,    \* links: the resolved records of the current descriptor
    recIdx,     \* index of link in links
    repeat,     \* the local variable `repeat` of __scrawl
    nodes,      \* the local variable `nodes` of __scrawl
    iter,       \* the loop variable i of `for i in range(repeat['times'])`
    stack,      \* the frames of __interact, innermost last
    err,        \* the error that interrupted the run, "none" if none
    raisedErr,  \* the error that left go(), "none" if none
    interacts,  \* history: calls of __interact(page, nodes) by __scrawl in this visit
    probe,      \* history: the last evaluation of __should_repeat
    trueProbes, \* history: evaluations of __should_repeat in this visit that returned True
    orig,       \* history: each heap dictionary as it was created
    lastOp,     \* history: where the latest navigation or node operation took place
    visited,    \* history: the records navigated to for the current descriptor
    timedOut,   \* history: a 'wait' of this run ended without a match
    data,       \* state['data']: the result tree (the obj of the keypath calls)
    kp,         \* a sequence of keypath calls: its arguments, position and results
    trace,      \* history: what the current call of __interact by __scrawl did
    ev          \* a call of __evaluate: its string, the getters left, its result

allVars == <<config, heap, vars, links, session, pages, pc, runs, pgIdx,
             pending, recIdx, repeat, nodes, iter, stack, err, raisedErr,
             interacts, probe, trueProbes, orig, lastOp, visited, timedOut, data, kp,
             trace, ev>>

NoProbeYet == [opts |-> NoProbe, dom |-> "absent", result |-> "none"]

\* No keypath call is under way.
KpOff == [phase |-> "off"]

\* No call of __evaluate is followed getter by getter.
EvOff == [phase |-> "off"]

\* Lines 48-50 of __init__, with the locals of go() and __scrawl not yet bound.
Fresh ==
    /\ heap = <<ConfigMeta, EmptyDict>>
    /\ vars = 2
    /\ links = <<>>
    /\ session = "none"
    /\ pages = 0
    /\ runs = 0
    /\ pgIdx = 0
    /\ pending = <<>>
    /\ recIdx = 0
    /\ trace = <<>>
    /\ repeat = Unbound
    /\ nodes = <<>>
    /\ iter = 0
    /\ stack = <<>>
    /\ err = "none"
    /\ raisedErr = "none"
    /\ interacts = 0
    /\ probe = NoProbeYet
    /\ trueProbes = 0
    /\ orig = heap
    /\ lastOp = <<>>
    /\ visited = <<>>
    /\ timedOut = FALSE

\* Scrawler(config) is about to be called with a configuration.
Init ==
    /\ config \in Configs \cup OddConfigs
    /\ pc = "new"
    /\ Fresh
    /\ data = DictV(<<>>)
    /\ kp = KpOff
    /\ ev = EvOff

\* Scrawler(config): line 47 validates the configuration; an error of
\* validate() leaves __init__ and no Scrawler exists.
Construct ==
    /\ pc = "new"
    /\ pc' = IF validate(config) = "none" THEN "idle" ELSE "rejected"
    /\ UNCHANGED <<config, heap, vars, links, session, pages, runs, pgIdx, pending,
                   recIdx, repeat, nodes, iter, stack, err, raisedErr, interacts,
                   probe, trueProbes, orig, lastOp, visited, timedOut, data, kp, trace,
                   ev>>

\* ------------------------------------------------------------ go, __scrawl
\* go() is called; a finished run may be followed by another call.
Go ==
    /\ pc \in {"idle", "returned", "raised"}
    /\ runs < MaxRuns
    /\ runs' = runs + 1
    /\ pc' = "launch"
    /\ err' = "none"
    /\ raisedErr' = "none"
    /\ timedOut' = FALSE
    /\ UNCHANGED <<config, heap, vars, links, session, pages, pgIdx, pending, recIdx,
                   repeat, nodes, iter, stack, interacts, probe, trueProbes, orig,
                   lastOp, visited, data, kp, trace, ev>>

\* __launch_browser: an unsupported browser type raises before self.__browser
\* is assigned; otherwise a browser and a context without pages are created.
\* The locals of the new call of __scrawl are unbound.
LaunchBrowser ==
    /\ pc = "launch"
    /\ IF BrowserType(config) \in BrowserTypes
       THEN /\ session' = "open"
            /\ pages' = 0
            /\ pc' = "forpage"
            /\ err' = err
       ELSE /\ err' = "ValueError"
            /\ pc' = "except"
            /\ UNCHANGED <<session, pages>>
    /\ pgIdx' = 1
    /\ repeat' = Unbound
    /\ nodes' = <<>>
    /\ UNCHANGED <<config, heap, vars, links, runs, pending, recIdx, iter, stack,
                   raisedErr, interacts, probe, trueProbes, orig, lastOp, visited,
                   timedOut, data, kp, trace, ev>>

\* __resolve_page_link: the records of a link source, in order. A literal url
\* gets a new empty metadata dictionary; pick() copies an explicit record but
\* not its metadata mapping; "$name" contributes the records of links[name].
RECURSIVE ResolveFrom(_, _, _, _, _)
ResolveFrom(src, i, lk, hp, acc) ==
    IF i > Len(src) THEN [recs |-> acc, heap |-> hp]
    ELSE LET it == src[i] IN
         CASE it.kind = "rec" ->
                ResolveFrom(src, i + 1, lk, hp, Append(acc, [url |-> it.url, meta |-> it.meta]))
           [] it.kind = "ref" ->
                ResolveFrom(src, i + 1, lk, hp,
                            acc \o (IF it.name \in DOMAIN lk THEN lk[it.name] ELSE <<>>))
           [] OTHER ->
                ResolveFrom(src, i + 1, lk, Append(hp, EmptyDict),
                            Append(acc, [url |-> it.url, meta |-> Len(hp) + 1]))

\* A resolver that takes "$name" for a literal url.
ResolveRefAsLiteral(src, lk, hp) ==
    ResolveFrom([k \in DOMAIN src |-> [src[k] EXCEPT !.kind = IF @ = "ref" THEN "lit" ELSE @]],
                1, lk, hp, <<>>)

ResolvePageLink(src, lk, hp) == ResolveFrom(src, 1, lk, hp, <<>>)

\* A visit list that is the registry itself for a source of "$name" alone.
VisitListLive(pend, src, lk) ==
    IF src # <<>> /\ \A k \in DOMAIN src : src[k].kind = "ref"
    THEN ResolveFrom(src, 1, lk, <<>>, <<>>).recs
    ELSE pend

\* Lines 143-145: `for link in links` iterates the list that
\* __resolve_page_link built, into which `links += ...` copied the records of
\* a registry; the registries of state['links'] are other lists.
VisitList(pend, src, lk) == pend

\* A dictionary is recorded in `orig` as it is when it enters the heap.
Grow(og, hp) == og \o SubSeq(hp, Len(og) + 1, Len(hp))

\* for pg in config['scrawl']: links = __resolve_page_link(pg['link']); the loop's
\* end (or a configuration without 'scrawl') leads to line 64 of go(). An
\* entry without 'link' raises KeyError.
ForPage ==
    /\ pc = "forpage"
    /\ IF config.hasScrawl /\ pgIdx <= Len(config.scrawl)
       THEN IF config.scrawl[pgIdx].hasLink
            THEN LET r == ResolvePageLink(config.scrawl[pgIdx].link, links, heap) IN
                 /\ pending' = r.recs
                 /\ heap' = r.heap
                 /\ orig' = Grow(orig, r.heap)
                 /\ recIdx' = 1
                 /\ visited' = <<>>
                 /\ pc' = "forlink"
                 /\ err' = err
            ELSE /\ err' = "KeyError"
                 /\ pc' = "except"
                 /\ UNCHANGED <<pending, heap, orig, recIdx, visited>>
       ELSE /\ pc' = "close"
            /\ UNCHANGED <<pending, heap, orig, recIdx, visited, err>>
    /\ UNCHANGED <<config, vars, links, session, pages, runs, pgIdx, repeat, nodes,
                   iter, stack, raisedErr, interacts, probe, trueProbes, lastOp,
                   timedOut, data, kp, trace, ev>>

\* for link in links: the loop's end moves to the next descriptor.
NextPage ==
    /\ pc = "forlink"
    /\ recIdx > Len(VisitList(pending, config.scrawl[pgIdx].link, links))
    /\ pgIdx' = pgIdx + 1
    /\ pc' = "forpage"
    /\ UNCHANGED <<config, heap, vars, links, session, pages, runs, pending, recIdx,
                   repeat, nodes, iter, stack, err, raisedErr, interacts, probe,
                   trueProbes, orig, lastOp, visited, timedOut, data, kp, trace, ev>>

\* __new_page(link['url']): a page is added to the context, then page.goto
\* either loads the document or raises.
NewPage ==
    /\ pc = "forlink"
    /\ recIdx <= Len(VisitList(pending, config.scrawl[pgIdx].link, links))
    /\ pages' = pages + 1
    /\ interacts' = 0
    /\ lastOp' = <<runs, pgIdx, recIdx>>
    /\ visited' = Append(visited, VisitList(pending, config.scrawl[pgIdx].link, links)[recIdx])
    /\ trueProbes' = 0
    /\ probe' = NoProbeYet
    /\ \/ /\ pc' = "setvars"
          /\ err' = err
       \/ /\ err' = "NavigationError"
          /\ pc' = "except"
    /\ UNCHANGED <<config, heap, vars, links, session, runs, pgIdx, pending, recIdx,
                   repeat, nodes, iter, stack, raisedErr, orig, timedOut, data, kp,
                   trace, ev>>

\* Lines 147-148: state['vars'] = link.get('metadata', {}) binds vars to the
\* record's own metadata dictionary (a new one only when the record has none),
\* and vars['_url'] = page.url writes into that dictionary.
SetVars ==
    /\ pc = "setvars"
    /\ LET link == VisitList(pending, config.scrawl[pgIdx].link, links)[recIdx]
           m == link.meta
           hp == IF m = 0 THEN Append(heap, EmptyDict) ELSE heap
           v == IF m = 0 THEN Len(heap) + 1 ELSE m
       IN /\ vars' = v
          /\ heap' = [hp EXCEPT ![v] = DictSet(hp[v], "_url", link.url)]
          /\ orig' = Grow(orig, hp)
    /\ pc' = "line150"
    /\ UNCHANGED <<config, links, session, pages, runs, pgIdx, pending, recIdx, repeat,
                   nodes, iter, stack, err, raisedErr, interacts, probe, trueProbes,
                   lastOp, visited, timedOut, data, kp, trace, ev>>

\* Line 150: nodes = repeat.get('nodes', []) reads the local `repeat`, which
\* is bound only by line 153 of an earlier iteration: unbound, the read raises
\* UnboundLocalError.
Line150 ==
    /\ pc = "line150"
    /\ IF repeat.kind = "unbound"
       THEN /\ err' = "UnboundLocalError"
            /\ pc' = "except"
            /\ nodes' = nodes
       ELSE /\ nodes' = repeat.nodes
            /\ pc' = "policy"
            /\ err' = err
    /\ UNCHANGED <<config, heap, vars, links, session, pages, runs, pgIdx, pending,
                   recIdx, repeat, iter, stack, raisedErr, interacts, probe,
                   trueProbes, orig, lastOp, visited, timedOut, data, kp, trace, ev>>

\* __close_browser: context.pages[0].close() raises IndexError when the
\* context has no page, AttributeError when no context was ever created;
\* otherwise the page, the context and the browser are closed.
CloseBrowserError ==
    CASE session = "none" -> "AttributeError"
      [] session = "open" /\ pages > 0 -> "none"
      [] OTHER -> "IndexError"

\* Line 64 of go(): cleanup after __scrawl returned.
CloseAfterScrawl ==
    /\ pc = "close"
    /\ IF CloseBrowserError = "none"
       THEN /\ session' = "closed"
            /\ pages' = 0
            /\ pc' = "returned"
            /\ err' = err
       ELSE /\ err' = CloseBrowserError
            /\ pc' = "except"
            /\ UNCHANGED <<session, pages>>
    /\ UNCHANGED <<config, heap, vars, links, runs, pgIdx, pending, recIdx, repeat,
                   nodes, iter, stack, raisedErr, interacts, probe, trueProbes, orig,
                   lastOp, visited, timedOut, data, kp, trace, ev>>

\* Lines 65-68 of go(): the handler runs the cleanup again and re-raises e; an
\* error of the cleanup itself leaves go() in place of e.
ExceptHandler ==
    /\ pc = "except"
    /\ IF CloseBrowserError = "none"
       THEN /\ session' = "closed"
            /\ pages' = 0
            /\ raisedErr' = err
       ELSE /\ raisedErr' = CloseBrowserError
            /\ UNCHANGED <<session, pages>>
    /\ pc' = "raised"
    /\ stack' = <<>>
    /\ trace' = <<>>
    /\ UNCHANGED <<config, heap, vars, links, runs, pgIdx, pending, recIdx, repeat,
                   nodes, iter, err, interacts, probe, trueProbes, orig, lastOp,
                   visited, timedOut, data, kp, ev>>

\* ------------------------------------------------- the repeat policy (152-167)
\* A call of __interact(page, nodes): a new frame at the first position.
\* Its locals: the matches counted (n), the resolved range (rng), the matches
\* left in `locs` (each by its index among the matches), the loop variable i;
\* `seen` lists the elements handled at the position and `before` is the
\* result tree as the position's node found it.
Frame(nl) ==
    [nodes |-> nl, pos |-> 1, alt |-> 1, st |-> "query", n |-> 0,
     rng |-> [start |-> 0, stop |-> 0, step |-> 1], locs |-> <<>>, i |-> 0,
     seen |-> <<>>, before |-> None]

\* Lines 152-162: a descriptor with 'repeat' binds the local `repeat` and
\* loops by 'times' or 'while'; one without interacts once.
Policy ==
    /\ pc = "policy"
    /\ LET pg == config.scrawl[pgIdx] IN
       IF pg.repeat.kind = "none"
       THEN /\ stack' = <<Frame(nodes)>>
            /\ pc' = "interact"
            /\ UNCHANGED <<repeat, iter>>
       ELSE /\ repeat' = pg.repeat
            /\ iter' = 0
            /\ pc' = pg.repeat.kind
            /\ stack' = stack
    /\ UNCHANGED <<config, heap, vars, links, session, pages, runs, pgIdx, pending,
                   recIdx, nodes, err, raisedErr, interacts, probe, trueProbes, orig,
                   lastOp, visited, timedOut, data, kp, trace, ev>>

\* for i in range(repeat['times']): self.__interact(page, nodes)
TimesLoop ==
    /\ pc = "times"
    /\ IF iter < repeat.n
       THEN /\ stack' = <<Frame(nodes)>>
            /\ pc' = "interact"
       ELSE /\ pc' = "endvisit"
            /\ stack' = stack
    /\ UNCHANGED <<config, heap, vars, links, session, pages, runs, pgIdx, pending,
                   recIdx, repeat, nodes, iter, err, raisedErr, interacts, probe,
                   trueProbes, orig, lastOp, visited, timedOut, data, kp, trace, ev>>

\* What the page shows for the probe's selector when it is probed: no match,
\* or a first match that is enabled or disabled.
DomStates == {"absent", "enabled", "disabled"}

\* A probe that continues only when every present condition is satisfied.
ShouldRepeatEvery(d, opts) ==
    IF opts.exists # "absent" /\ ~((d # "absent") <=> (opts.exists = "true"))
    THEN "false"
    ELSE IF opts.disabled = "absent"
         THEN (IF opts.exists # "absent" THEN "true" ELSE "false")
    ELSE IF d = "absent" THEN "error"
    ELSE IF (d = "disabled") <=> (opts.disabled = "true") THEN "true"
    ELSE "false"

\* __should_repeat(page, opts) on a page whose first match is d:
\* 'exists' is compared with bool(loc.count()), then 'disabled' with
\* loc.is_disabled(), which raises TimeoutError when nothing matches.
ShouldRepeat(d, opts) ==
    IF opts.exists # "absent" /\ ((d # "absent") <=> (opts.exists = "true"))
    THEN "true"
    ELSE IF opts.disabled = "absent" THEN "false"
    ELSE IF d = "absent" THEN "error"
    ELSE IF (d = "disabled") <=> (opts.disabled = "true") THEN "true"
    ELSE "false"

\* while self.__should_repeat(page, repeat['while']): self.__interact(page, nodes)
WhileLoop ==
    /\ pc = "while"
    /\ \E d \in DomStates :
         LET r == ShouldRepeat(d, repeat.probe) IN
         /\ probe' = [opts |-> repeat.probe, dom |-> d, result |-> r]
         /\ CASE r = "true" ->
                   /\ interacts < MaxWhile
                   /\ stack' = <<Frame(nodes)>>
                   /\ pc' = "interact"
                   /\ trueProbes' = trueProbes + 1
                   /\ err' = err
              [] r = "false" ->
                   /\ pc' = "endvisit"
                   /\ UNCHANGED <<stack, err, trueProbes>>
              [] OTHER ->
                   /\ err' = "TimeoutError:is_disabled"
                   /\ pc' = "except"
                   /\ UNCHANGED <<stack, trueProbes>>
    /\ UNCHANGED <<config, heap, vars, links, session, pages, runs, pgIdx, pending,
                   recIdx, repeat, nodes, iter, raisedErr, interacts, orig, lastOp,
                   visited, timedOut, data, kp, trace, ev>>

\* Line 167: for p in context.pages[1:]: p.close() closes every page but the
\* first of the context.
PagesAfterVisit(n) == IF n > 1 THEN 1 ELSE n

EndVisit ==
    /\ pc = "endvisit"
    /\ pages' = PagesAfterVisit(pages)
    /\ recIdx' = recIdx + 1
    /\ pc' = "forlink"
    /\ UNCHANGED <<config, heap, vars, links, session, runs, pgIdx, pending, repeat,
                   nodes, iter, stack, err, raisedErr, interacts, probe, trueProbes,
                   orig, lastOp, visited, timedOut, data, kp, trace, ev>>

\* ------------------------------------------------------------- __interact
Top == stack[Len(stack)]

CurrentNode == Top.nodes[Top.pos][Top.alt]

\* re.sub(':', '-', node.get('name', node['selector']))
Sub(name) == [k \in DOMAIN name |-> IF name[k] = ":" THEN "-" ELSE name[k]]

\* Where a frame stands: the positions and element indices of the calls
\* around it.
RECURSIVE PathOf(_, _)
PathOf(st, j) ==
    IF j > Len(st) THEN <<>>
    ELSE IF j = Len(st) /\ st[j].st = "query" THEN <<st[j].pos>>
    ELSE <<st[j].pos, st[j].i>> \o PathOf(st, j + 1)

\* The call of __interact a frame is: the position, alternative and element
\* index of each call around it, and its own position.
RECURSIVE KeyOf(_, _)
KeyOf(st, j) ==
    IF j >= Len(st) THEN <<st[j].pos>>
    ELSE <<st[j].pos, st[j].alt, st[j].i>> \o KeyOf(st, j + 1)

\* An entry of the history: what was done (op), in which call and for which
\* alternative (key, alt), for which element (i, its index among the matches
\* el), by which action (k) and with which argument; n is the count of
\* matches of a query, and 1 for the pass that took the element out of the
\* document.
Ev(at, op, k, n, arg) ==
    [op |-> op, key |-> at.key, alt |-> at.alt, i |-> at.i, el |-> at.el, k |-> k,
     n |-> n, arg |-> arg]

OpKey(st) == <<runs, pgIdx, recIdx, interacts + 1>> \o PathOf(st, 1)

\* Line 272 (`continue`): the next alternative of the position, and after the
\* last one the next position.
NextAlternative(fr) ==
    IF fr.alt < Len(fr.nodes[fr.pos])
    THEN [fr EXCEPT !.alt = fr.alt + 1]
    ELSE [fr EXCEPT !.pos = fr.pos + 1, !.alt = 1]

\* A traversal that goes on to the alternatives left after a match.
KeepTrying(fr) ==
    IF fr.alt < Len(fr.nodes[fr.pos])
    THEN [Frame(fr.nodes) EXCEPT !.pos = fr.pos, !.alt = fr.alt + 1]
    ELSE [Frame(fr.nodes) EXCEPT !.pos = fr.pos + 1]

\* Line 295 (`break`): the next position.
NextPosition(fr) == [Frame(fr.nodes) EXCEPT !.pos = fr.pos + 1]

\* __resolve_range(range, max): dict(enumerate(range)).get(p, default), and
\* the default in place of '_'.
RangeAt(rng, p, default) == IF p <= Len(rng) /\ ~rng[p].u THEN rng[p].v ELSE default

resolve_range(rng, max) ==
    [start |-> RangeAt(rng, 1, 0), stop |-> RangeAt(rng, 2, max), step |-> RangeAt(rng, 3, 1)]

\* A bound of a slice of a list of n: a negative bound counts from the end,
\* and the bound is brought into 0..n.
Clamp(b, n) ==
    LET c == IF b < 0 THEN b + n ELSE b
    IN IF c < 0 THEN 0 ELSE IF c > n THEN n ELSE c

\* locs[start:stop] of the n matches, each match by its index.
Slice(n, start, stop) ==
    LET lo == Clamp(start, n)
        hi == Clamp(stop, n)
    IN [k \in 1..(IF hi > lo THEN hi - lo ELSE 0) |-> lo + k - 1]

\* A selection that takes no account of the range: every match when 'all' is
\* set, else the first.
SelectedUnranged(node, n) == IF node.all THEN Slice(n, 0, n) ELSE <<0>>

\* Lines 274-279: the matches within the range, and of these the first alone
\* unless 'all' is set.
Selected(node, n) ==
    LET w == resolve_range(node.range, n)
        locs == Slice(n, w.start, w.stop)
    IN IF node.all \/ locs = <<>> THEN locs ELSE <<locs[1]>>

\* Line 281: for i in range(0, len(locs), rng_step) has a next value of i.
InLoop(fr) == fr.rng.step > 0 /\ fr.i < Len(fr.locs)

\* The matches a page of the model shows for a node's selector: up to
\* MaxWindow for a node with a range, up to MaxMatches for another.
Matches(node) == IF node.range = <<>> THEN MaxMatches ELSE MaxWindow

\* A wait whose TimeoutError is swallowed: the node counts as without match.
WaitTimeoutSwallowed ==
    /\ timedOut' = TRUE
    /\ stack' = [stack EXCEPT ![Len(stack)] = NextAlternative(@)]
    /\ UNCHANGED <<pc, err>>

\* Lines 265-267: locator.wait_for(timeout=node['wait']) found no match in
\* time; the TimeoutError is raised again and leaves __interact.
WaitTimeout ==
    /\ timedOut' = TRUE
    /\ err' = "TimeoutError:wait_for"
    /\ pc' = "except"
    /\ stack' = stack

\* Lines 253-279: vars['_node'] is written, the locator is built, a 'wait'
\* blocks until a match appears or raises TimeoutError, and the matches are
\* gathered; without a match the node is skipped. With matches the range is
\* resolved and applied; range() raises ValueError for a step of 0.
QueryNode ==
    /\ pc = "interact"
    /\ stack # <<>>
    /\ Top.st = "query"
    /\ Top.pos <= Len(Top.nodes)
    /\ heap' = [heap EXCEPT ![vars] = DictSet(heap[vars], "_node", Sub(CurrentNode.name))]
    /\ lastOp' = OpKey(stack)
    /\ \/ /\ CurrentNode.wait
          /\ WaitTimeout
          /\ trace' = trace
       \/ \E n \in (IF CurrentNode.wait THEN 1 ELSE 0)..Matches(CurrentNode) :
             /\ timedOut' = timedOut
             /\ trace' = Append(trace, Ev([key |-> KeyOf(stack, 1), alt |-> Top.alt,
                                           i |-> 0, el |-> 0], "query", 0, n, ""))
             /\ IF n > 0 /\ resolve_range(CurrentNode.range, n).step = 0
                THEN /\ err' = "ValueError"
                     /\ pc' = "except"
                     /\ stack' = stack
                ELSE /\ stack' = [stack EXCEPT ![Len(stack)] =
                            IF n = 0 THEN NextAlternative(Top)
                            ELSE [Top EXCEPT !.st = "elems", !.i = 0, !.n = n,
                                             !.rng = resolve_range(CurrentNode.range, n),
                                             !.locs = Selected(CurrentNode, n),
                                             !.before = data]]
                     /\ UNCHANGED <<pc, err>>
    /\ UNCHANGED <<config, vars, links, session, pages, runs, pgIdx, pending, recIdx,
                   repeat, nodes, iter, raisedErr, interacts, probe, trueProbes, orig,
                   visited, data, kp, ev>>

\* The element at index i of the matches: its href.
Hrefs == <<"/p0", "/p1", "/p2", "/p3">>

\* The characters of the strs that the pages and the configuration hold.
CharsOf(str) ==
    CASE str = "/p0" -> <<"/", "p", "0">>
      [] str = "/p1" -> <<"/", "p", "1">>
      [] str = "/p2" -> <<"/", "p", "2">>
      [] str = "/p3" -> <<"/", "p", "3">>
      [] str = "/a" -> <<"/", "a">>
      [] str = "/m" -> <<"/", "m">>
      [] str = "/n" -> <<"/", "n">>
      [] str = "/t" -> <<"/", "t">>
      [] str = "m" -> <<"m">>
      [] str = "href" -> <<"h", "r", "e", "f">>
      [] OTHER -> <<>>

\* A str result, or the error raised in place of one.
OkS(str) == [err |-> "none", str |-> str, isNone |-> FALSE]

RaiseS(e) == [err |-> e, str |-> "", isNone |-> FALSE]

\* __attribute(prop, loc) for the element at index i, with neither selector
\* nor utilities: href is read from the element, which raises TimeoutError
\* when the element is gone from the document; an attribute that is not href,
\* src or text is not read, and the value is None.
Attribute(prop, i, gone) ==
    IF prop # "href" THEN [err |-> "none", str |-> "", isNone |-> TRUE]
    ELSE IF gone THEN RaiseS("TimeoutError")
    ELSE OkS(Hrefs[i + 1])

\* __var(name, default): line 546 calls notation.parse_value with the keyword
\* set_defaults, which parse_value does not take.
Var(name, vs) == RaiseS("TypeError")

\* __evaluate(string, loc) where the string is one token or holds none: the
\* token is replaced by its value with re.sub, which raises TypeError for a
\* value that is a list or None; a string without tokens is returned as it is.
Evaluate(expr, i, gone, vs) ==
    CASE expr.kind = "text" -> OkS(expr.s)
      [] expr.kind = "attr" ->
           LET a == Attribute(expr.prop, i, gone)
           IN IF a.err = "none" /\ a.isNone THEN RaiseS("TypeError") ELSE a
      [] expr.kind = "attrs" -> RaiseS("TypeError")
      [] OTHER -> Var(expr.prop, vs)

\* __add_links: per link configuration the url is evaluated, links[name] is
\* created if absent, the metadata are evaluated into a new dictionary, and
\* one record {url, metadata} is appended to links[name]. (__evaluate returns
\* no list: the loop of lines 328-329 over a list of urls is never entered.)
\* An error of an evaluation leaves the call with what was done before it.
RECURSIVE AddLinks(_, _, _, _, _, _, _)
AddLinks(cfgs, k, i, gone, vs, lk, hp) ==
    IF k > Len(cfgs) THEN [err |-> "none", links |-> lk, heap |-> hp]
    ELSE LET cfg == cfgs[k]
             url == Evaluate(cfg.url, i, gone, vs)
             old == IF cfg.name \in DOMAIN lk THEN lk[cfg.name] ELSE <<>>
             lk1 == (cfg.name :> old) @@ lk
             evs == [key \in DOMAIN cfg.metadata |-> Evaluate(cfg.metadata[key], i, gone, vs)]
             bad == {key \in DOMAIN cfg.metadata : evs[key].err # "none"}
             md == [key \in DOMAIN cfg.metadata |-> evs[key].str]
             rec == [url |-> url.str, meta |-> Len(hp) + 1]
         IN IF url.err # "none" THEN [err |-> url.err, links |-> lk, heap |-> hp]
            ELSE IF bad # {}
                 THEN [err |-> evs[CHOOSE key \in bad : TRUE].err, links |-> lk1, heap |-> hp]
            ELSE AddLinks(cfgs, k + 1, i, gone, vs, (cfg.name :> Append(old, rec)) @@ lk,
                          Append(hp, md))

\* state['vars'] as the vars of a keypath call: '_nth' is an int, every other
\* entry a str.
PyVars(h) ==
    [k \in DOMAIN h |-> CASE k = "_nth" -> IntV(h[k])
                          [] k = "_node" -> StrV(h[k])
                          [] OTHER -> StrV(CharsOf(h[k]))]

\* The first error among the results of a list or dict of evaluations.
FirstError(rs) ==
    LET bad == {j \in DOMAIN rs : rs[j].err # "none"}
    IN IF bad = {} THEN "none" ELSE rs[CHOOSE j \in bad : TRUE].err

\* Lines 348-359: the value of a data configuration for the element el, or
\* the error of an evaluation.
DataValue(v, el, gone, vs) ==
    CASE v.kind = "str" ->
           LET r == Evaluate(v.expr, el, gone, vs)
           IN IF r.err # "none" THEN Raise(r.err) ELSE Ok(StrV(CharsOf(r.str)))
      [] v.kind = "list" ->
           LET rs == [j \in DOMAIN v.items |-> Evaluate(v.items[j], el, gone, vs)]
           IN IF FirstError(rs) # "none" THEN Raise(FirstError(rs))
              ELSE Ok(ListV([j \in DOMAIN rs |-> StrV(CharsOf(rs[j].str))]))
      [] v.kind = "dict" ->
           LET rs == [key \in DOMAIN v.fields |-> Evaluate(v.fields[key], el, gone, vs)]
           IN IF FirstError(rs) # "none" THEN Raise(FirstError(rs))
              ELSE Ok(DictV([key \in DOMAIN rs |-> StrV(CharsOf(rs[key].str))]))
      [] OTHER -> Ok(None)

\* __extract_data(loc, configs, all) from configuration k on: the value is
\* put in a list when 'all' is set (a list whose first item is None becomes
\* empty, and value[0] of an empty list raises), the scope is resolved against
\* the tree in non-strict mode, and the value is assigned with merge. The
\* result is the tree after the call, or the error with the tree it left.
RECURSIVE ExtractData(_, _, _, _, _, _, _)
ExtractData(configs, k, el, gone, all, tree, vs) ==
    IF k > Len(configs) THEN Ok(tree)
    ELSE LET c == configs[k]
             dv == DataValue(c.value, el, gone, vs)
             v == dv.val
             w == IF all THEN ListV(<<v>>) ELSE v
         IN IF dv.err # "none" THEN [err |-> dv.err, val |-> tree]
            ELSE IF w.t = "list" /\ w.l = <<>> THEN [err |-> "IndexError", val |-> tree]
            ELSE LET value == IF w.t = "list" /\ w.l[1] = None THEN ListV(<<>>) ELSE w
                     scope == resolve(c.scope, tree, vs, FALSE)
                 IN IF scope.err # "none" THEN [err |-> scope.err, val |-> tree]
                    ELSE LET a == assign(value, tree, scope.val, TRUE)
                         IN IF a.err # "none" THEN a
                            ELSE ExtractData(configs, k + 1, el, gone, all, a.val, vs)

Swipes == {"swipe_left", "swipe_right"}

\* Lines 420-442, one pass of the loop: the event is dispatched, or the
\* element is clicked, or the mouse is pressed, dragged and released; any
\* other type raises ValueError. dispatch_event and click raise TimeoutError
\* for an element that is gone from the document.
Execute(a, gone) ==
    IF a.dispatch /\ a.type \notin Swipes
    THEN [err |-> IF gone THEN "TimeoutError" ELSE "none", op |-> "dispatch_event"]
    ELSE IF a.type = "click"
    THEN [err |-> IF gone THEN "TimeoutError" ELSE "none", op |-> "click"]
    ELSE IF a.type \in Swipes THEN [err |-> "none", op |-> "mouse"]
    ELSE [err |-> "ValueError", op |-> ""]

\* Lines 413-442: the passes of `for _ in range(count)` that are left. The
\* pass number d of the element, if there is one, takes the element out of
\* the document.
RECURSIVE Passes(_, _, _, _, _, _)
Passes(a, k, left, at, d, st) ==
    IF left <= 0 THEN st
    ELSE LET x == Execute(a, st.gone)
         IN IF x.err # "none" THEN [st EXCEPT !.err = x.err]
            ELSE Passes(a, k, left - 1, at, d,
                        [st EXCEPT !.events = Append(@, Ev(at, x.op, k,
                                                        IF st.execs + 1 = d THEN 1 ELSE 0,
                                                        a.type)),
                                   !.execs = @ + 1,
                                   !.gone = @ \/ st.execs + 1 = d])

\* A screenshot path evaluated when the screenshot is taken.
ShotPathLate(early, late) == late

\* Line 444: the path of the screenshot is the one evaluated at line 404,
\* not a value of the expression after the passes.
ShotPath(early, late) == early

\* __node_actions(actions, loc) from the action k on: the screenshot path
\* and a str count are evaluated, the element's rectangle is read, the
\* passes run and the screenshot is taken; range() raises TypeError for a
\* count that is a str, as every result of __evaluate is.
RECURSIVE NodeActions(_, _, _, _, _, _)
NodeActions(actions, k, at, d, vs, st) ==
    IF k > Len(actions) THEN st
    ELSE LET a == actions[k]
             early == IF a.hasShot THEN Evaluate(a.shot, at.el, st.gone, vs) ELSE OkS("")
             count == IF a.count.isStr THEN Evaluate(a.count.expr, at.el, st.gone, vs)
                      ELSE OkS("")
             ran == Passes(a, k, a.count.n, at, d, st)
             late == IF a.hasShot THEN Evaluate(a.shot, at.el, ran.gone, vs) ELSE OkS("")
             path == ShotPath(early, late)
         IN IF early.err # "none" THEN [st EXCEPT !.err = early.err]
            ELSE IF count.err # "none" THEN [st EXCEPT !.err = count.err]
            ELSE IF st.gone THEN [st EXCEPT !.err = "TimeoutError"]
            ELSE IF a.count.isStr THEN [st EXCEPT !.err = "TypeError"]
            ELSE IF ran.err # "none" THEN ran
            ELSE IF path.err # "none" THEN [ran EXCEPT !.err = path.err]
            ELSE NodeActions(actions, k + 1, at, d, vs,
                             IF a.hasShot
                             THEN [ran EXCEPT !.events = Append(@, Ev(at, "screenshot", k, 0, path.str))]
                             ELSE ran)

\* The passes that the actions of a node ask for.
RECURSIVE Budget(_, _)
Budget(actions, k) ==
    IF k > Len(actions) THEN 0 ELSE actions[k].count.n + Budget(actions, k + 1)

\* An element that is harvested before it is acted on.
StepEventsHarvestFirst(scroll, acts, lk, dt) == scroll \o lk \o dt \o acts

\* Lines 285-291: the element is scrolled into view, then acted on, then
\* harvested for links, then for data.
StepEvents(scroll, acts, lk, dt) == scroll \o acts \o lk \o dt

\* Lines 281-293 for one element: vars['_nth'] is written, the element is
\* scrolled into view if 'show' asks for it, the actions are performed, the
\* links and the data are harvested, and the nested nodes are traversed in a
\* new frame. An error of a step leaves __interact.
ElementStep ==
    /\ pc = "interact"
    /\ stack # <<>>
    /\ Top.st = "elems"
    /\ InLoop(Top)
    /\ \E d \in 0..Budget(CurrentNode.actions, 1) :
       LET node == CurrentNode
           el == Top.locs[Top.i + 1]
           at == [key |-> KeyOf(stack, 1), alt |-> Top.alt, i |-> Top.i, el |-> el]
           hp1 == [heap EXCEPT ![vars] = DictSet(heap[vars], "_nth", Top.i)]
           vs == PyVars(hp1[vars])
           acts == NodeActions(node.actions, 1, at, d, vs,
                               [err |-> "none", events |-> <<>>, execs |-> 0, gone |-> FALSE])
           r == IF acts.err # "none" THEN [err |-> acts.err, links |-> links, heap |-> hp1]
                ELSE AddLinks(node.links, 1, el, acts.gone, vs, links, hp1)
           x == IF r.err # "none" THEN [err |-> r.err, val |-> data]
                ELSE ExtractData(node.data, 1, el, acts.gone, node.all, data, vs)
           fr == [Top EXCEPT !.seen = Append(@, el)]
           scroll == IF node.show THEN <<Ev(at, "scroll", 0, 0, "")>> ELSE <<>>
           lk == IF acts.err = "none" /\ r.err = "none" /\ node.links # <<>>
                 THEN <<Ev(at, "links", 0, 0, "")>> ELSE <<>>
           dt == IF r.err = "none" /\ x.err = "none" /\ node.data # <<>>
                 THEN <<Ev(at, "data", 0, 0, "")>> ELSE <<>>
       IN /\ heap' = r.heap
          /\ orig' = Grow(orig, r.heap)
          /\ links' = r.links
          /\ data' = x.val
          /\ trace' = Append(trace, Ev(at, "element", 0, 0, ""))
                         \o StepEvents(scroll, acts.events, lk, dt)
          /\ IF x.err # "none"
             THEN /\ err' = x.err
                  /\ pc' = "except"
                  /\ stack' = [stack EXCEPT ![Len(stack)] = fr]
             ELSE /\ UNCHANGED <<pc, err>>
                  /\ stack' = IF node.nodes # <<>>
                              THEN Append([stack EXCEPT ![Len(stack)] = [fr EXCEPT !.st = "nested"]],
                                          Frame(node.nodes))
                              ELSE [stack EXCEPT ![Len(stack)] =
                                      [fr EXCEPT !.i = Top.i + Top.rng.step]]
    /\ lastOp' = OpKey(stack)
    /\ UNCHANGED <<config, vars, session, pages, runs, pgIdx, pending, recIdx, repeat,
                   nodes, iter, raisedErr, interacts, probe, trueProbes, visited,
                   timedOut, kp, ev>>

\* Line 295: after the last element of a node with matches, `break` leaves
\* the alternatives of the position.
NodeDone ==
    /\ pc = "interact"
    /\ stack # <<>>
    /\ Top.st = "elems"
    /\ ~InLoop(Top)
    /\ stack' = [stack EXCEPT ![Len(stack)] = NextPosition(Top)]
    /\ UNCHANGED <<config, heap, vars, links, session, pages, pc, runs, pgIdx, pending,
                   recIdx, repeat, nodes, iter, err, raisedErr, interacts, probe,
                   trueProbes, orig, lastOp, visited, timedOut, data, kp, trace, ev>>

\* A caller whose element loop starts over after a nested call.
ResumeFromFirst(fr) == [fr EXCEPT !.st = "elems", !.i = 0]

\* The loop over the element of the calling frame goes on after a nested call.
Resume(fr) == [fr EXCEPT !.st = "elems", !.i = fr.i + fr.rng.step]

\* A nested __interact returns to line 293 of its caller.
NestedReturn ==
    /\ pc = "interact"
    /\ Len(stack) > 1
    /\ Top.st = "query"
    /\ Top.pos > Len(Top.nodes)
    /\ stack' = [SubSeq(stack, 1, Len(stack) - 1) EXCEPT ![Len(stack) - 1] = Resume(@)]
    /\ UNCHANGED <<config, heap, vars, links, session, pages, pc, runs, pgIdx, pending,
                   recIdx, repeat, nodes, iter, err, raisedErr, interacts, probe,
                   trueProbes, orig, lastOp, visited, timedOut, data, kp, trace, ev>>

\* __interact returns to __scrawl (lines 157, 160, 162).
InteractReturn ==
    /\ pc = "interact"
    /\ Len(stack) = 1
    /\ Top.st = "query"
    /\ Top.pos > Len(Top.nodes)
    /\ stack' = <<>>
    /\ trace' = <<>>
    /\ interacts' = interacts + 1
    /\ LET kind == config.scrawl[pgIdx].repeat.kind IN
       /\ pc' = IF kind = "none" THEN "endvisit" ELSE kind
       /\ iter' = IF kind = "times" THEN iter + 1 ELSE iter
    /\ UNCHANGED <<config, heap, vars, links, session, pages, runs, pgIdx, pending,
                   recIdx, repeat, nodes, err, raisedErr, probe, trueProbes, orig,
                   lastOp, visited, timedOut, data, kp, ev>>

\* ------------------------------------------------------- specifications
GoSteps ==
    \/ Go
    \/ LaunchBrowser
    \/ ForPage
    \/ NextPage
    \/ NewPage
    \/ SetVars
    \/ Line150
    \/ CloseAfterScrawl
    \/ ExceptHandler

VisitSteps ==
    \/ Policy
    \/ TimesLoop
    \/ WhileLoop
    \/ EndVisit
    \/ QueryNode
    \/ ElementStep
    \/ NodeDone
    \/ NestedReturn
    \/ InteractReturn

Next == Construct \/ GoSteps

\* The run of go() as the code stands: the local `repeat` of __scrawl is
\* unbound when line 150 reads it.
Spec == Init /\ [][Next]_allVars

\* __scrawl at line 142 of a first run, the browser launched, with the local
\* `repeat` holding the first descriptor's repeat policy: the state in which
\* lines 152-167 and __interact run.
InitVisit ==
    /\ config \in {c \in Configs : /\ BrowserType(c) \in BrowserTypes
                                   /\ c.scrawl # <<>>
                                   /\ c.scrawl[1].repeat.kind # "none"}
    /\ heap = <<ConfigMeta, EmptyDict>>
    /\ vars = 2
    /\ links = <<>>
    /\ session = "open"
    /\ pages = 0
    /\ pc = "forpage"
    /\ runs = 1
    /\ pgIdx = 1
    /\ pending = <<>>
    /\ recIdx = 0
    /\ trace = <<>>
    /\ repeat = config.scrawl[1].repeat
    /\ nodes = <<>>
    /\ iter = 0
    /\ stack = <<>>
    /\ err = "none"
    /\ raisedErr = "none"
    /\ interacts = 0
    /\ probe = NoProbeYet
    /\ trueProbes = 0
    /\ orig = heap
    /\ lastOp = <<>>
    /\ visited = <<>>
    /\ timedOut = FALSE
    /\ data = DictV(<<>>)
    /\ kp = KpOff
    /\ ev = EvOff

NextVisit == GoSteps \/ VisitSteps

SpecVisit == InitVisit /\ [][NextVisit]_allVars

\* ------------------------------------------------ the keypath engine alone
SA == StrV(<<"A">>)

SB == StrV(<<"B">>)

I1 == IntV(1)

I2 == IntV(2)

LA == ListV(<<SA>>)

LB == ListV(<<SB>>)

DX == DictV([x |-> SA])

DY == DictV([y |-> SB])

Items == ListV(<<DictV([id |-> I1]), DictV([id |-> I2]), DictV([id |-> I2])>>)

Trees ==
    {DictV(<<>>), DictV([a |-> LA]), DictV([a |-> SA]), DictV([a |-> I1]), DictV([a |-> DX]),
     Items, ListV(<<DX, DictV([id |-> I2])>>), DictV([items |-> Items]),
     DictV([u |-> DictV([id |-> I1]), w |-> DictV([id |-> I2])])}

IdIs == Seg("$key{id=$x}", "key", "id", "=", "x", TRUE)

IdIsTwo == Seg("$key{id=2}", "key", "id", "=", "2", FALSE)

IdAtLeast == Seg("$key{id>=$x}", "key", "id", ">=", "x", TRUE)

StarIdIs == Seg("*{id=$x}", "star", "id", "=", "x", TRUE)

Paths ==
    {<<Plain("a")>>, <<Plain("a"), Plain("x")>>, <<Plain("b"), Plain("y")>>,
     <<IdIs>>, <<IdIsTwo>>, <<IdAtLeast>>, <<StarIdIs>>, <<Plain("items"), IdIs>>}

VarsOf == {[x |-> I2], [x |-> StrV(<<"2">>)], [x |-> IntV(3)]}

Values == {SA, I1, LA, ListV(<<>>), DY, None}

Seconds == {LB, DX}

KpInputs ==
    [phase : {"start"}, tree : Trees, segs : Paths, vars : VarsOf, strict : BOOLEAN,
     merge : BOOLEAN, value : Values, second : Seconds, path : {<<>>}, ret : {None},
     err : {"none"}]

\* The interpreter's variables, which the keypath calls leave alone.
interp == <<config, heap, vars, links, session, pages, pc, runs, pgIdx, pending,
            recIdx, repeat, nodes, iter, stack, err, raisedErr, interacts, probe,
            trueProbes, orig, lastOp, visited, timedOut, trace>>

\* The segments of a path passed to assign or get as they are.
RawKeys(segs) == [j \in DOMAIN segs |-> Key(segs[j].text)]

\* keypath.resolve(path, data, vars, resolve_key=notation.find_item_key, strict=...)
ResolveCall ==
    /\ kp.phase = "start"
    /\ LET r == resolve(kp.segs, data, kp.vars, kp.strict) IN
       kp' = [kp EXCEPT !.phase = "resolved", !.err = r.err,
                        !.path = IF r.err = "none" THEN r.val ELSE <<>>]
    /\ UNCHANGED <<data, interp, ev>>

\* keypath.assign(value, data, path, merge=...) with the path as given or as
\* resolve returned it.
AssignCall ==
    /\ \/ kp.phase = "start"
       \/ kp.phase = "resolved" /\ kp.err = "none"
    /\ LET path == IF kp.phase = "start" THEN RawKeys(kp.segs) ELSE kp.path
           r == assign(kp.value, data, path, kp.merge)
       IN /\ data' = r.val
          /\ kp' = [kp EXCEPT !.phase = "assigned", !.err = r.err, !.path = path]
    /\ UNCHANGED <<interp, ev>>

\* A second keypath.assign at the same path.
AssignAgain ==
    /\ kp.phase = "assigned"
    /\ kp.err = "none"
    /\ LET r == assign(kp.second, data, kp.path, kp.merge) IN
       /\ data' = r.val
       /\ kp' = [kp EXCEPT !.phase = "reassigned", !.err = r.err]
    /\ UNCHANGED <<interp, ev>>

\* keypath.get(path, data) after an assign at that path.
GetCall ==
    /\ kp.phase = "assigned"
    /\ kp.err = "none"
    /\ kp' = [kp EXCEPT !.phase = "got", !.ret = get(kp.path, data)]
    /\ UNCHANGED <<data, interp, ev>>

InitKeypath ==
    /\ pc = "idle"
    /\ config = Config(Chromium, FALSE, "none", <<>>)
    /\ Fresh
    /\ kp \in KpInputs
    /\ data = kp.tree
    /\ ev = EvOff

NextKeypath ==
    \/ ResolveCall
    \/ AssignCall
    \/ AssignAgain
    \/ GetCall

\* The calls of utils/keypath.py on the trees, paths and values above.
SpecKeypath == InitKeypath /\ [][NextKeypath]_allVars

\* ------------------------------------------------ __evaluate, getter by getter
\* A string is a sequence of pieces: the text of a token, or other text.
AttrTokens == {"$attr{href}", "$attr{text}"}

VarTokens == {"$var{n}"}

Pieces == AttrTokens \cup VarTokens \cup {"-"}

\* notation.parse_getters(string): the set of the getters of the string, each
\* the token's text and its type; a token that occurs twice is in it once.
parse_getters(string) ==
    {[full |-> string[j], typ |-> IF string[j] \in VarTokens THEN "var" ELSE "attr"] :
        j \in {k \in DOMAIN string : string[k] \in AttrTokens \cup VarTokens}}

\* re.sub(re.escape(full_match), value, string): every occurrence of the
\* token's text in the string as it is now is replaced by the value.
RECURSIVE Substitute(_, _, _)
Substitute(string, full, value) ==
    IF string = <<>> THEN <<>>
    ELSE (IF Head(string) = full THEN value ELSE <<Head(string)>>)
             \o Substitute(Tail(string), full, value)

\* The strings given to __evaluate and, for the element, the values of the
\* attributes href and text, which are what the page holds: a text may hold
\* the text of a token.
EvInputs ==
    [phase : {"loop"},
     input : UNION {[1..n -> Pieces] : n \in 1..MaxPieces},
     attrs : [AttrTokens -> {<<"/p0">>, <<"$attr{href}">>, <<"$attr{text}">>}],
     string : {<<>>}, todo : {{}}, resolved : {<<>>}, err : {"none"}]

\* Lines 470-479, one iteration of `for full_match, typ, var_name in getters`:
\* getters is a set, whose order of iteration is not fixed by the program;
\* the getter's value is resolved (__var raises TypeError, line 546) and
\* substituted.
EvaluateStep ==
    /\ pc = "idle"
    /\ ev.phase = "loop"
    /\ ev.todo # {}
    /\ \E g \in ev.todo :
          IF g.typ = "var"
          THEN ev' = [ev EXCEPT !.phase = "raised", !.err = "TypeError",
                                !.resolved = Append(@, g.full)]
          ELSE ev' = [ev EXCEPT !.string = Substitute(@, g.full, ev.attrs[g.full]),
                                !.todo = @ \ {g},
                                !.resolved = Append(@, g.full)]
    /\ UNCHANGED <<config, heap, vars, links, session, pages, pc, runs, pgIdx, pending,
                   recIdx, repeat, nodes, iter, stack, err, raisedErr, interacts,
                   probe, trueProbes, orig, lastOp, visited, timedOut, data, kp, trace>>

\* Line 481: return string.
EvaluateReturn ==
    /\ pc = "idle"
    /\ ev.phase = "loop"
    /\ ev.todo = {}
    /\ ev' = [ev EXCEPT !.phase = "returned"]
    /\ UNCHANGED <<config, heap, vars, links, session, pages, pc, runs, pgIdx, pending,
                   recIdx, repeat, nodes, iter, stack, err, raisedErr, interacts,
                   probe, trueProbes, orig, lastOp, visited, timedOut, data, kp, trace>>

\* Line 470 of a call of __evaluate: getters = notation.parse_getters(string).
InitEvaluate ==
    /\ pc = "idle"
    /\ config = Config(Chromium, FALSE, "none", <<>>)
    /\ Fresh
    /\ data = DictV(<<>>)
    /\ kp = KpOff
    /\ \E x \in EvInputs :
          ev = [x EXCEPT !.string = x.input, !.todo = parse_getters(x.input)]

NextEvaluate == EvaluateStep \/ EvaluateReturn

\* The calls of __evaluate on the strings and attribute values above.
SpecEvaluate == InitEvaluate /\ [][NextEvaluate]_allVars

\* ------------------------------------------------------------- properties
IsPrefix(s, t) == Len(s) <= Len(t) /\ SubSeq(t, 1, Len(s)) = s

\* The order of two places of a run: descriptor, record, call, then the
\* positions and element indices from the outermost call inwards.
RECURSIVE LexLeq(_, _)
LexLeq(a, b) ==
    IF a = <<>> THEN TRUE
    ELSE IF b = <<>> THEN FALSE
    ELSE IF Head(a) < Head(b) THEN TRUE
    ELSE IF Head(a) > Head(b) THEN FALSE
    ELSE LexLeq(Tail(a), Tail(b))

Registry(name) == IF name \in DOMAIN links THEN links[name] ELSE <<>>

Declared == config.scrawl[pgIdx].repeat

SetupErrors == {"ValueError", "IndexError", "AttributeError"}

\* A page visit is over: its repeat policy has run to its end, or an error
\* other than a failed navigation or a timed-out wait has ended it.
VisitOver ==
    \/ pc = "endvisit"
    \/ /\ pc = "except"
       /\ err \notin SetupErrors \cup {"NavigationError", "TimeoutError:wait_for"}

\* C1: when go() has returned or raised, the browser session is closed, and
\* an error that leaves go() is the error that interrupted the run, not one
\* raised by the cleanup.
C1_ReleasedOnEveryExit ==
    pc \in {"returned", "raised"} =>
        /\ session = "closed"
        /\ pc = "raised" => raisedErr = err

InDescriptor == {"forlink", "setvars", "line150", "policy", "times", "while",
                 "interact", "endvisit"}

RefDescriptor ==
    /\ pc \in InDescriptor
    /\ config.scrawl[pgIdx].link = <<RefP>>

C5_InteractionsFollowPolicy ==
    VisitOver =>
        interacts = CASE Declared.kind = "none" -> 1
                      [] Declared.kind = "times" -> Declared.n
                      [] OTHER -> trueProbes

NextEnabled == [exists |-> "absent", disabled |-> "false"]

\* C6: under while: {selector: "#next", disabled: false}, a visit on which
\* "#next" is present ends with the probe that found it disabled, after one
\* interaction per probe that found it enabled, and the run goes on to the
\* next visit.
C6_WhileStopsWhenDisabled ==
    (VisitOver /\ Declared.kind = "while" /\ Declared.probe = NextEnabled
        /\ err # "TimeoutError:is_disabled") =>
        /\ pc = "endvisit"
        /\ probe.dom = "disabled"
        /\ interacts = trueProbes

ExistsSatisfied(p) ==
    /\ p.opts.exists # "absent"
    /\ (p.dom # "absent") <=> (p.opts.exists = "true")

DisabledSatisfied(p) ==
    /\ p.opts.disabled # "absent"
    /\ p.dom # "absent"
    /\ (p.dom = "disabled") <=> (p.opts.disabled = "true")

C20_ConfigUnchanged ==
    pc \in {"returned", "raised"} => heap[1] = ConfigMeta

\* What is stored at the one-segment path of the keypath calls, before and after.
Leaf(tree) == Item(tree, kp.path[1])

HadLeaf == Len(kp.path) = 1 /\ has_key(kp.tree, kp.path[1])

\* C13: a merge-assign onto a key whose value has another type than the
\* incoming value raises nothing and leaves the incoming value stored.
C13_MergeReplacesOtherType ==
    (kp.phase = "assigned" /\ kp.merge /\ HadLeaf /\ Leaf(kp.tree).t # kp.value.t) =>
        /\ kp.err = "none"
        /\ Leaf(data) = kp.value

\* C14: a merge-assign of a mapping onto a key that holds a mapping stores
\* their union: every key of the incoming mapping with its value, and every
\* other key of the existing mapping.
C14_MergeUnitesMappings ==
    (kp.phase = "assigned" /\ kp.merge /\ HadLeaf /\ Leaf(kp.tree).t = "dict"
        /\ kp.value.t = "dict") =>
        /\ kp.err = "none"
        /\ Leaf(data) = DictV(kp.value.d @@ Leaf(kp.tree).d)

\* C15: on an empty tree, assign without merge at any path of one segment or
\* more raises nothing, and get at that path then returns the assigned value.
C15_AssignThenGet ==
    (kp.phase \in {"assigned", "got"} /\ kp.tree = DictV(<<>>) /\ ~kp.merge) =>
        /\ kp.err = "none"
        /\ kp.phase = "got" => kp.ret = kp.value

\* C16: merge-assigning a list A and then a list B at a path leaves the tree
\* that one merge-assign of A ++ B at that path leaves; where the first
\* assign raises, so does the single one.
C16_MergeAssociative ==
    (kp.phase \in {"assigned", "reassigned"} /\ kp.merge /\ kp.value.t = "list"
        /\ kp.second.t = "list") =>
        LET once == assign(ListV(kp.value.l \o kp.second.l), kp.tree, kp.path, TRUE) IN
        /\ kp.phase = "reassigned" => (kp.err = "none" /\ once.err = "none" /\ data = once.val)
        /\ (kp.phase = "assigned" /\ kp.err # "none") => once.err = kp.err

C16_Witness ==
    /\ kp.phase = "reassigned"
    /\ kp.merge
    /\ kp.tree = DictV(<<>>)
    /\ kp.value = LA
    /\ kp.second = LB
    /\ data = DictV([a |-> ListV(<<SA, SB>>)])

\* The predicate segment of the resolved path and the collection it is
\* resolved against: the tree, or what the segments before it lead to.
Pred == kp.segs[Len(kp.segs)]

Collection ==
    IF Len(kp.segs) > 1 /\ has_key(kp.tree, Key(kp.segs[1].text))
    THEN Item(kp.tree, Key(kp.segs[1].text))
    ELSE kp.tree

\* The segments before the predicate lead somewhere, or need not (non-strict).
PrefixResolves ==
    Len(kp.segs) = 1 \/ ~kp.strict \/ has_key(kp.tree, Key(kp.segs[1].text))

Operand == IF Pred.isVar THEN kp.vars[Pred.operand] ELSE Pred.lit

\* The item has the subkey and its value stands in the relation to the operand.
Satisfies(item) ==
    /\ has_key(item, Key(Pred.sub))
    /\ LET a == Item(item, Key(Pred.sub)) IN
       CASE Pred.op = "=" -> a = Operand
         [] Pred.op = "!=" -> a # Operand
         [] OTHER -> a.t = Operand.t /\ a.t \in {"int", "str"} /\ ~Less(a, Operand)

\* Every item can be compared: it holds the subkey, with a value of the
\* operand's type where the operator is an order.
Comparable(item) ==
    /\ has_key(item, Key(Pred.sub))
    /\ Pred.op \in {"=", "!="} \/ Item(item, Key(Pred.sub)).t = Operand.t

\* The order of the collection: the indices of a list from 0 up, the keys
\* of a mapping as it holds them.
Order ==
    IF Collection.t = "list" THEN [j \in 1..Len(Collection.l) |-> IntV(j - 1)]
    ELSE LET held == SelectSeq(KeyNames, LAMBDA name : name \in DOMAIN Collection.d)
         IN [j \in DOMAIN held |-> Key(held[j])]

C18_UnmatchedKeptAsText ==
    (kp.phase = "resolved" /\ ~kp.strict /\ Pred.form = "key"
        /\ Collection.t \in {"list", "dict"}
        /\ \A j \in DOMAIN Order : /\ Comparable(Item(Collection, Order[j]))
                                   /\ ~Satisfies(Item(Collection, Order[j]))) =>
        /\ kp.err = "none"
        /\ kp.path[Len(kp.path)] = Key(Pred.text)

\* The node a frame stands at.
NodeAt(fr) == fr.nodes[fr.pos][fr.alt]

\* The position p of a node's range as configured, `default` for '_' or none.
Bound(node, p, default) ==
    IF Len(node.range) >= p /\ node.range[p] # Under THEN node.range[p].v ELSE default

\* The indices start, start + step, start + 2 * step, ... below stop among n
\* matches.
WindowOf(node, n) ==
    {k \in 0..(n - 1) : /\ k >= Bound(node, 1, 0)
                        /\ k < Bound(node, 2, n)
                        /\ (k - Bound(node, 1, 0)) % Bound(node, 3, 1) = 0}

\* The members of a set of numbers from the least to the greatest.
InOrder(S) ==
    [j \in 1..Cardinality(S) |-> CHOOSE k \in S : Cardinality({m \in S : m < k}) = j - 1]

\* The elements due to a node: the whole window when 'all' is set, else its
\* first.
Due(node, n) ==
    LET w == InOrder(WindowOf(node, n))
    IN IF node.all \/ w = <<>> THEN w ELSE <<w[1]>>

Harvested(fr, c) ==
    ListV([k \in DOMAIN fr.seen |-> DataValue(c.value, fr.seen[k], FALSE, <<>>).val])

WellShaped(k, v) ==
    CASE k = "type" -> v.ty = "str"
      [] k = "show" -> v.ty = "bool"
      [] k \in {"timeout", "slowdown"} -> v.ty = "int"
      [] k = "ready_on" -> v.ty = "str" /\ v.val \in {"load", "domcontentloaded", "networkidle", "commit"}
      [] k = "viewport" -> v.ty = "list" /\ v.items = <<"int", "int">>
      [] k = "block" -> v.ty = "list" /\ v.items # <<>> /\ \A j \in DOMAIN v.items : v.items[j] = "str"
      [] OTHER -> TRUE

BadBrowserShape(c) ==
    c.browser.has /\ (c.browser.ty # "dict"
                      \/ \E k \in DOMAIN c.browser.set : ~WellShaped(k, c.browser.set[k]))

BadScrawlShape(c) ==
    c.hasScrawl /\ (c.scrawlTy # "list" \/ \E j \in DOMAIN c.scrawl : ~c.scrawl[j].hasLink)

\* C11: a configuration with a wrongly typed browser setting, a 'scrawl' that
\* is not a list or an entry of 'scrawl' that is not a usable page descriptor
\* is rejected when the Scrawler is constructed, and no browser session is
\* ever launched for it.
C11_MalformedRejected ==
    (BadBrowserShape(config) \/ BadScrawlShape(config))
        => pc \in {"new", "rejected"} /\ session = "none"

\* A configuration that visits no page: no 'scrawl', or descriptors whose
\* link sources are all empty.
VisitsNoPage(c) ==
    /\ validate(c) = "none"
    /\ BrowserType(c) \in BrowserTypes
    /\ ~c.hasScrawl \/ \A j \in DOMAIN c.scrawl : c.scrawl[j].hasLink /\ c.scrawl[j].link = <<>>

\* C30: a run whose configuration visits no page launches the browser, closes
\* it and returns: go() does not raise, the browser ends closed, and data and
\* links are empty.
C30_EmptyRunReturns ==
    (VisitsNoPage(config) /\ pc \in {"returned", "raised"})
        => /\ pc = "returned"
           /\ session = "closed"
           /\ links = <<>>
           /\ data = DictV(<<>>)

\* An element of the innermost node is about to be handled.
AtElement == pc = "interact" /\ stack # <<>> /\ Top.st = "elems" /\ InLoop(Top)

RECURSIVE NodeIn(_, _, _)
NodeIn(nl, key, alt) ==
    IF Len(key) = 1 THEN nl[key[1]][alt]
    ELSE NodeIn(nl[key[1]][key[2]].nodes, SubSeq(key, 4, Len(key)), alt)

NodeOf(e) == NodeIn(nodes, e.key, e.alt)

\* Two entries of the history about the same element of the same node.
SameElement(x, y) == x.key = y.key /\ x.alt = y.alt /\ x.i = y.i

Decimal(n) == <<"0", "1", "2", "3">>[n + 1]

UrlValues(c, el, n) ==
    CASE c.url.kind = "attrs" -> [j \in 1..n |-> Hrefs[j]]
      [] c.url.kind = "attr" -> <<Hrefs[el + 1]>>
      [] OTHER -> <<c.url.s>>

PassOps == {"dispatch_event", "click", "mouse"}

Performed(e, k) ==
    Cardinality({j \in DOMAIN trace :
                    trace[j].op \in PassOps /\ SameElement(trace[j], e) /\ trace[j].k = k})

\* The count an action asks for: its int, or the value of the variable that
\* its str names (here the iteration index of the element).
Asked(a, e) == IF a.count.isStr THEN e.i ELSE a.count.n

\* An action the reference describes: a supported type, a count that is an
\* int or names a bound variable, and no screenshot path with a variable.
Described(a) ==
    /\ a.dispatch \/ a.type \in {"click"} \cup Swipes
    /\ a.count.isStr => a.count.expr.kind = "var"
    /\ a.hasShot => a.shot.kind # "var"

Shots(e, k) ==
    {j \in DOMAIN trace :
        trace[j].op = "screenshot" /\ SameElement(trace[j], e) /\ trace[j].k = k}

StepOps == {"element", "scroll", "links", "data", "screenshot"} \cup PassOps

Rank(op) ==
    CASE op = "element" -> 0
      [] op = "scroll" -> 1
      [] op = "links" -> 3
      [] op = "data" -> 4
      [] OTHER -> 2

\* The entry x is of a call nested under an element of the node of y.
Extends(x, y) ==
    /\ Len(x.key) >= Len(y.key) + 3
    /\ SubSeq(x.key, 1, Len(y.key) + 1) = y.key \o <<y.alt>>

\* The index of that element.
ParentI(x, y) == x.key[Len(y.key) + 2]

Queries(x) == {b \in DOMAIN trace : trace[b].op = "query" /\ trace[b].key = x.key}

Iterated == VisitList(pending, config.scrawl[pgIdx].link, links)

Orders(S) ==
    {o \in [1..Cardinality(S) -> S] : \A a, b \in DOMAIN o : a # b => o[a] # o[b]}

\* The string after the getters were resolved and substituted in the order o,
\* from the getter j on.
RECURSIVE ResultIn(_, _, _, _)
ResultIn(string, o, j, attrs) ==
    IF j > Len(o) THEN string
    ELSE ResultIn(Substitute(string, o[j].full, attrs[o[j].full]), o, j + 1, attrs)

\* C32: when __evaluate returns, each distinct token of the string was
\* resolved exactly once, and the string returned is the one that every
\* order of resolving and substituting the distinct tokens yields, also when
\* the value of one token holds the text of another.
C32_OrderIndependent ==
    ev.phase = "returned" =>
        /\ \A g \in parse_getters(ev.input) :
              Cardinality({j \in DOMAIN ev.resolved : ev.resolved[j] = g.full}) = 1
        /\ \A o \in Orders(parse_getters(ev.input)) :
              ResultIn(ev.input, o, 1, ev.attrs) = ev.string

=============================================================================
